---- MODULE Spec2Model ----
(***************************************************************************)
(* Model of Move-Semantics.cpp: class String (an owned heap buffer with a  *)
(* constructor from a C string, a deep-copy constructor, a move            *)
(* constructor, a destructor and Print) and class Entity (holds one String *)
(* m_Name, built by copy or by move).                                       *)
(*                                                                         *)
(* State: the String/Entity instances that were ever created (objs), the   *)
(* free store (heap), the trace lines written to stdout (trace), the       *)
(* bytes written by the most recent Print (lastPrint), and how the process *)
(* ended if it did (halted, err, fault).                                    *)
(*                                                                         *)
(* An Entity is modelled by the fields of its only member m_Name.          *)
(* Fields ctor/how/from/arg/temp/stolen/fromStolen of an instance are      *)
(* history: ctor is the constructor the caller invoked, how the String     *)
(* constructor that built the buffer; the modelled code reads them only to *)
(* tell a String from an Entity and a temporary from a named instance.     *)
(***************************************************************************)
EXTENDS Integers, Sequences, FiniteSets, TLC

\* ---- bounds -------------------------------------------------------------
MaxObjs == 3      \* instances ever created in one run
MaxAllocs == 2    \* successful new char[] in one run

\* ---- program constants --------------------------------------------------
NUL == 0          \* the terminator strlen scans for
NL == 10          \* '\n' written by Print
Null == 0         \* nullptr
Uninit == -1      \* content of a byte of new char[n] that was never written

Foo == <<70, 111, 111>>          \* the literal "Foo" of main
Bar == <<66, 97, 114>>           \* a second literal
Bytes == {NUL, 70, 111}          \* values an invalid read may yield

\* The byte sequences callers hand to String(const char*): the empty one,
\* two literals without a zero byte, and two with a zero byte inside.
Inputs == {<<>>, Foo, Bar, <<70, NUL, 111>>, <<NUL, 70>>}

\* The values an indeterminate m_Size is drawn from.
Sizes == {Len(b) : b \in Inputs}

VARIABLES objs, heap, trace, lastPrint, pending, err, fault, halted

vars == <<objs, heap, trace, lastPrint, pending, err, fault, halted>>

NoPrint == [by |-> 0, bytes |-> <<>>]

\* ---- helpers ------------------------------------------------------------

\* The memory a caller passes for the byte sequence b: b and a terminator,
\* as a string literal is laid out.
CString(b) == b \o <<NUL>>

\* A length that counts the terminator.
strlen_countsTerminator(string) ==
    CHOOSE i \in 1..Len(string) :
        /\ string[i] = NUL
        /\ \A j \in 1..(i - 1) : string[j] # NUL

\* strlen: the number of bytes before the first NUL.
strlen(string) ==
    (CHOOSE i \in 1..Len(string) :
        /\ string[i] = NUL
        /\ \A j \in 1..(i - 1) : string[j] # NUL) - 1

\* new char[n]: a fresh block of n unwritten bytes; its address is its index.
NewArray(h, n) ==
    Append(h, [bytes |-> [i \in 1..n |-> Uninit], status |-> "live", frees |-> 0])

\* memcpy(dst, src, n): the first n bytes of block dst become src[1..n].
Memcpy(h, dst, src, n) ==
    [h EXCEPT ![dst].bytes = [i \in 1..Len(@) |-> IF i <= n THEN src[i] ELSE @[i]]]

\* n bytes can be read at p: nothing is read when n = 0 (Print's loop body
\* does not run, memcpy copies nothing), otherwise p must point to a live
\* block of at least n bytes.
Readable(h, p, n) ==
    \/ n = 0
    \/ /\ p \in 1..Len(h)
       /\ h[p].status = "live"
       /\ n <= Len(h[p].bytes)

\* The outcomes of reading n bytes at p.  An invalid read is undefined: the
\* process faults (ok = FALSE) or the read yields bytes that are not the
\* program's (here: n times one of Bytes).
Fetch(h, p, n) ==
    IF Readable(h, p, n)
    THEN {[ok |-> TRUE, bytes |-> [i \in 1..n |-> h[p].bytes[i]]]}
    ELSE {[ok |-> FALSE, bytes |-> <<>>]}
         \cup {[ok |-> TRUE, bytes |-> [i \in 1..n |-> c]] : c \in Bytes}

\* The outcomes of `delete p` (scalar delete):
\*  - nullptr: no effect;
\*  - a live block (every block comes from new char[]): scalar delete of an
\*    array allocation is undefined; the block is released, or the mismatch
\*    is detected and the process aborts with the block not released;
\*  - a block that is not live, or no block at all: undefined; the process
\*    aborts or carries on.
Delete(h, p) ==
    IF p = Null
    THEN {[heap |-> h, halted |-> FALSE, fault |-> "none"]}
    ELSE IF p \in 1..Len(h) /\ h[p].status = "live"
    THEN { [heap |-> [h EXCEPT ![p].status = "freed", ![p].frees = @ + 1],
            halted |-> FALSE, fault |-> "none"],
           [heap |-> [h EXCEPT ![p].status = "mismatch"],
            halted |-> TRUE, fault |-> "none"] }
    ELSE IF p \in 1..Len(h)
    THEN {[heap |-> [h EXCEPT ![p].frees = @ + 1], halted |-> x,
           fault |-> "invalid_delete"] : x \in BOOLEAN}
    ELSE {[heap |-> h, halted |-> x, fault |-> "invalid_delete"] : x \in BOOLEAN}

\* A move that forgets `other.m_Data = nullptr`.
MovedFrom_keepsPointer(other) ==
    [other EXCEPT !.m_Size = 0, !.stolen = TRUE]

\* A move that forgets `other.m_Size = 0`.
MovedFrom_keepsSize(other) ==
    [other EXCEPT !.m_Data = Null, !.stolen = TRUE]

\* other.m_Data = nullptr; other.m_Size = 0;
MovedFrom(other) ==
    [other EXCEPT !.m_Data = Null, !.m_Size = 0, !.stolen = TRUE]

\* new (std::nothrow) char[n]: the failure yields nullptr and the constructor
\* carries on with it.
ThrowBadAlloc_nothrow(os, o) == Append(os, o)

\* new char[n] failed: std::bad_alloc leaves the constructor, the instance o
\* under construction never comes into existence.
ThrowBadAlloc(os, o) == os

\* The bytes Print writes for the bytes it read: each with %c, then "\n".
PrintBytes(read) == read \o <<NL>>

NewObj(k, d, s, hw, fr, a, t, fs) ==
    [ctor |-> k, live |-> TRUE, m_Data |-> d, m_Size |-> s,
     how |-> hw, from |-> fr, arg |-> a, temp |-> t,
     stolen |-> FALSE, fromStolen |-> fs]

EntityCtors ==
    {"Entity(const String&)", "Entity(String&&)", "Entity(const Entity&)",
     "Entity(Entity&&)"}

IsEntity(o) == objs[o].ctor \in EntityCtors

IsString(o) == ~IsEntity(o)

IsNamed(o) ==
    /\ o \in 1..Len(objs)
    /\ objs[o].live
    /\ ~objs[o].temp

Running == ~halted

\* ---- initial state ------------------------------------------------------
Init ==
    /\ objs = <<>>
    /\ heap = <<>>
    /\ trace = [Created |-> 0, Copied |-> 0, Moved |-> 0, Destroyed |-> 0]
    /\ lastPrint = NoPrint
    /\ pending = 0
    /\ err = "none"
    /\ fault = "none"
    /\ halted = FALSE

\* ---- String ---------------------------------------------------------------

\* String(const char* string) (lines 32-38):
\* "Created!", m_Size = strlen(string), m_Data = new char[m_Size],
\* memcpy(m_Data, string, m_Size).  t: the instance is a temporary.
\* m_Size is a uint32_t: the assignment is exact for the lengths below 2^32,
\* which all of Inputs are.
String_cstr(b, t) ==
    /\ Running
    /\ pending = 0
    /\ Len(objs) < MaxObjs
    /\ Len(heap) < MaxAllocs
    /\ LET string == CString(b)
           m_Size == strlen(string)
           h1 == NewArray(heap, m_Size)
           m_Data == Len(h1)
       IN /\ heap' = Memcpy(h1, m_Data, string, m_Size)
          /\ objs' = Append(objs,
                 NewObj("String(const char*)", m_Data, m_Size, "bytes", 0, b, t, FALSE))
    /\ trace' = [trace EXCEPT !.Created = @ + 1]
    /\ pending' = IF t THEN Len(objs) + 1 ELSE 0
    /\ lastPrint' = NoPrint
    /\ UNCHANGED <<err, fault, halted>>

\* String(const char*) when new char[m_Size] throws: "Created!" was already
\* written; nothing in the program catches, so the process terminates.
String_cstr_fail(b) ==
    /\ Running
    /\ pending = 0
    /\ Len(objs) < MaxObjs
    /\ LET m_Size == strlen(CString(b))
       IN objs' = ThrowBadAlloc(objs,
              NewObj("String(const char*)", Null, m_Size, "bytes", 0, b, FALSE, FALSE))
    /\ trace' = [trace EXCEPT !.Created = @ + 1]
    /\ err' = "bad_alloc"
    /\ halted' = TRUE
    /\ lastPrint' = NoPrint
    /\ UNCHANGED <<heap, pending, fault>>

\* A copy constructor that copies the members: m_Data = other.m_Data.
CopyConstruct_shallow(o, k) ==
    /\ Len(objs) < MaxObjs
    /\ objs' = Append(objs,
           NewObj(k, objs[o].m_Data, objs[o].m_Size, "copy", o, <<>>, FALSE,
                  objs[o].stolen))
    /\ trace' = [trace EXCEPT !.Copied = @ + 1]
    /\ lastPrint' = NoPrint
    /\ UNCHANGED <<heap, pending, err, fault, halted>>

\* String(const String& other) on behalf of the constructor k (lines 42-48):
\* "Copied!", m_Size = other.m_Size, m_Data = new char[m_Size],
\* memcpy(m_Data, other.m_Data, m_Size).
CopyConstruct(o, k) ==
    /\ Len(objs) < MaxObjs
    /\ Len(heap) < MaxAllocs
    /\ LET other == objs[o]
           m_Size == other.m_Size
           h1 == NewArray(heap, m_Size)
           m_Data == Len(h1)
       IN \E f \in Fetch(heap, other.m_Data, m_Size) :
            /\ fault' = IF Readable(heap, other.m_Data, m_Size)
                        THEN fault ELSE "invalid_read"
            /\ halted' = ~f.ok
            /\ IF f.ok
               THEN /\ heap' = Memcpy(h1, m_Data, f.bytes, m_Size)
                    /\ objs' = Append(objs,
                           NewObj(k, m_Data, m_Size, "copy", o, <<>>, FALSE,
                                  other.stolen))
               ELSE /\ heap' = h1
                    /\ objs' = objs
    /\ trace' = [trace EXCEPT !.Copied = @ + 1]
    /\ lastPrint' = NoPrint
    /\ UNCHANGED <<pending, err>>

\* String(const String&) when new char[m_Size] throws.
CopyConstructFail(o, k) ==
    /\ Len(objs) < MaxObjs
    /\ objs' = ThrowBadAlloc(objs,
           NewObj(k, Null, objs[o].m_Size, "copy", o, <<>>, FALSE,
                  objs[o].stolen))
    /\ trace' = [trace EXCEPT !.Copied = @ + 1]
    /\ err' = "bad_alloc"
    /\ halted' = TRUE
    /\ lastPrint' = NoPrint
    /\ UNCHANGED <<heap, pending, fault>>

\* String(String&& other) on behalf of the constructor k (lines 51-64):
\* "Moved!", m_Size = other.m_Size, m_Data = other.m_Data, then
\* other.m_Data = nullptr, other.m_Size = 0.
MoveConstruct(o, k) ==
    /\ Len(objs) < MaxObjs
    /\ LET other == objs[o]
       IN objs' = Append([objs EXCEPT ![o] = MovedFrom(other)],
              NewObj(k, other.m_Data, other.m_Size, "move", o, <<>>, FALSE,
                     other.stolen))
    /\ trace' = [trace EXCEPT !.Moved = @ + 1]
    /\ lastPrint' = NoPrint
    /\ UNCHANGED <<heap, pending, err, fault, halted>>

\* String y(x);
String_copy(o) ==
    /\ Running
    /\ pending = 0
    /\ IsNamed(o)
    /\ IsString(o)
    /\ CopyConstruct(o, "String(const String&)")

String_copy_fail(o) ==
    /\ Running
    /\ pending = 0
    /\ IsNamed(o)
    /\ IsString(o)
    /\ CopyConstructFail(o, "String(const String&)")

\* String y(std::move(x));
String_move(o) ==
    /\ Running
    /\ pending = 0
    /\ IsNamed(o)
    /\ IsString(o)
    /\ MoveConstruct(o, "String(String&&)")

\* ~String() (lines 66-70): "Destroyed", delete m_Data.  A named instance
\* is destroyed when its scope ends, a temporary at the end of its
\* full-expression; ~Entity() destroys m_Name the same way.
String_dtor(o) ==
    /\ Running
    /\ o \in 1..Len(objs)
    /\ objs[o].live
    /\ pending \in {0, o}
    /\ \E d \in Delete(heap, objs[o].m_Data) :
         /\ heap' = d.heap
         /\ halted' = d.halted
         /\ fault' = IF d.fault = "none" THEN fault ELSE d.fault
    /\ objs' = [objs EXCEPT ![o].live = FALSE]
    /\ trace' = [trace EXCEPT !.Destroyed = @ + 1]
    /\ pending' = 0
    /\ lastPrint' = NoPrint
    /\ UNCHANGED err

\* String::Print() (lines 72-80) and Entity::PrintName() (lines 107-110),
\* which forwards to m_Name.Print(): m_Data[i] for i in [0, m_Size), then "\n".
String_Print(o) ==
    /\ Running
    /\ pending = 0
    /\ IsNamed(o)
    /\ \E f \in Fetch(heap, objs[o].m_Data, objs[o].m_Size) :
         /\ fault' = IF Readable(heap, objs[o].m_Data, objs[o].m_Size)
                     THEN fault ELSE "invalid_read"
         /\ halted' = ~f.ok
         /\ lastPrint' = IF f.ok
                         THEN [by |-> o, bytes |-> PrintBytes(f.bytes)]
                         ELSE NoPrint
    /\ UNCHANGED <<objs, heap, trace, pending, err>>

\* String() = default (line 28): m_Data and m_Size (lines 83-84) have no
\* initializer, so `String s;` leaves both indeterminate.
String_default ==
    /\ Running
    /\ pending = 0
    /\ Len(objs) < MaxObjs
    /\ \E d \in 0..MaxAllocs, s \in Sizes :
         objs' = Append(objs, NewObj("String()", d, s, "default", 0, <<>>, FALSE, FALSE))
    /\ lastPrint' = NoPrint
    /\ UNCHANGED <<heap, trace, pending, err, fault, halted>>

\* ---- Entity ---------------------------------------------------------------

\* An Entity(const String&) whose m_Name is moved from its argument.
Entity_fromExisting_moves(o) ==
    /\ Running
    /\ pending = 0
    /\ IsNamed(o)
    /\ IsString(o)
    /\ MoveConstruct(o, "Entity(const String&)")

\* Entity(const String& name) : m_Name(name) (lines 93-96).
Entity_fromExisting(o) ==
    /\ Running
    /\ pending = 0
    /\ IsNamed(o)
    /\ IsString(o)
    /\ CopyConstruct(o, "Entity(const String&)")

Entity_fromExisting_fail(o) ==
    /\ Running
    /\ pending = 0
    /\ IsNamed(o)
    /\ IsString(o)
    /\ CopyConstructFail(o, "Entity(const String&)")

\* An Entity(String&&) without std::move: m_Name(name) copies.
Entity_fromTransient_copies(o) ==
    /\ Running
    /\ o \in 1..Len(objs)
    /\ objs[o].live
    /\ IsString(o)
    /\ IF pending = 0 THEN ~objs[o].temp ELSE o = pending /\ ~objs[o].stolen
    /\ CopyConstruct(o, "Entity(String&&)")

\* Entity(String&& name) : m_Name(std::move(name)) (lines 102-105); the
\* argument is the pending temporary, or a named String through std::move.
Entity_fromTransient(o) ==
    /\ Running
    /\ o \in 1..Len(objs)
    /\ objs[o].live
    /\ IsString(o)
    /\ IF pending = 0 THEN ~objs[o].temp ELSE o = pending /\ ~objs[o].stolen
    /\ MoveConstruct(o, "Entity(String&&)")

\* The implicit Entity(const Entity&): copies m_Name.
Entity_copy(e) ==
    /\ Running
    /\ pending = 0
    /\ IsNamed(e)
    /\ IsEntity(e)
    /\ CopyConstruct(e, "Entity(const Entity&)")

\* The implicit Entity(Entity&&): moves m_Name.
Entity_move(e) ==
    /\ Running
    /\ pending = 0
    /\ IsNamed(e)
    /\ IsEntity(e)
    /\ MoveConstruct(e, "Entity(Entity&&)")

\* ---- specifications -------------------------------------------------------

Ids == 1..MaxObjs

\* Programs that never default-construct a String.
Next ==
    \/ \E b \in Inputs, t \in BOOLEAN : String_cstr(b, t)
    \/ \E b \in Inputs : String_cstr_fail(b)
    \/ \E o \in Ids : String_copy(o)
    \/ \E o \in Ids : String_copy_fail(o)
    \/ \E o \in Ids : String_move(o)
    \/ \E o \in Ids : String_dtor(o)
    \/ \E o \in Ids : String_Print(o)
    \/ \E o \in Ids : Entity_fromExisting(o)
    \/ \E o \in Ids : Entity_fromExisting_fail(o)
    \/ \E o \in Ids : Entity_fromTransient(o)
    \/ \E e \in Ids : Entity_copy(e)
    \/ \E e \in Ids : Entity_move(e)

Spec == Init /\ [][Next]_vars

\* Programs that also use `String s;`.
NextDefault ==
    \/ Next
    \/ String_default

SpecDefault == Init /\ [][NextDefault]_vars

\* ---- properties -----------------------------------------------------------

Objs == 1..Len(objs)

\* The byte sequences without a zero byte (C strings), and all of them.
NoNul == {b \in Inputs : \A i \in 1..Len(b) : b[i] # NUL}
AnyBytes == Inputs

\* y was built by the copy (resp. move) constructor from x, and x was built
\* from bytes and still held them at that time.
CopyOfFresh(y) ==
    /\ objs[y].how = "copy"
    /\ ~objs[y].fromStolen
    /\ objs[objs[y].from].how = "bytes"

MoveOfFresh(y) ==
    /\ objs[y].how = "move"
    /\ ~objs[y].fromStolen
    /\ objs[objs[y].from].how = "bytes"

\* The step created an instance by the constructor hw.
Built(hw) ==
    /\ Len(objs') = Len(objs) + 1
    /\ objs'[Len(objs')].how = hw

\* The source of the instance the step created is as it was, and so is the
\* block it points to.
SourceUntouched ==
    LET x == objs'[Len(objs')].from
    IN /\ objs'[x] = objs[x]
       /\ objs[x].m_Data # Null => heap'[objs[x].m_Data] = heap[objs[x].m_Data]

\* -- C1 --
C1For(S) ==
    \A y \in Objs :
        MoveOfFresh(y) =>
            LET x == objs[y].from
            IN /\ objs[x].m_Size = 0
               /\ objs[x].m_Data = Null
               /\ (lastPrint.by = y /\ ~objs[y].stolen /\ objs[x].arg \in S) =>
                      lastPrint.bytes = objs[x].arg \o <<NL>>

\* C1 as stated: for every byte sequence b, after x = String(b) and
\* y = String(std::move(x)), x has m_Size 0 and m_Data null and y.Print()
\* writes the bytes of b (and the line terminator).
C1_Transfer_AnyBytes == C1For(AnyBytes)

\* C1 amended: x is emptied for every b; y.Print() writes b and the
\* terminator for every b without a zero byte.
C1_Transfer == C1For(NoNul)

C1_Witness ==
    \E y \in Objs :
        /\ MoveOfFresh(y)
        /\ objs[objs[y].from].arg = Foo
        /\ lastPrint.by = y

\* -- C2 --
\* C2: when the source and the target of a move are both destroyed, the
\* block the target took over has been freed exactly once.
C2_FreedExactlyOnce ==
    \A t \in Objs :
        ( /\ objs[t].how = "move"
          /\ ~objs[t].live
          /\ ~objs[objs[t].from].live
          /\ objs[t].m_Data # Null ) =>
            /\ heap[objs[t].m_Data].status = "freed"
            /\ heap[objs[t].m_Data].frees = 1

\* -- C3 --
\* C3: no two live instances point to the same block, and no live instance
\* points to a block that is not live.
C3_SingleOwnership ==
    /\ \A i, j \in Objs :
           ( /\ i # j
             /\ objs[i].live
             /\ objs[j].live
             /\ objs[i].m_Data # Null ) => objs[i].m_Data # objs[j].m_Data
    /\ \A i \in Objs :
           (objs[i].live /\ objs[i].m_Data # Null) =>
               /\ objs[i].m_Data \in 1..Len(heap)
               /\ heap[objs[i].m_Data].status = "live"

C3_Witness ==
    /\ Len(objs) = 3
    /\ \E y \in Objs :
           /\ objs[y].how = "move"
           /\ objs[y].live
           /\ objs[y].m_Data # Null
           /\ objs[objs[y].from].live
    /\ \E a \in 1..Len(heap) : heap[a].status = "freed"

\* -- C4 --
\* C4: every live instance has m_Size > 0 only with m_Data pointing to a
\* live block of at least m_Size bytes, and m_Data null only with m_Size 0.
C4_RepInvariant ==
    \A o \in Objs :
        objs[o].live =>
            /\ objs[o].m_Size > 0 =>
                   /\ objs[o].m_Data \in 1..Len(heap)
                   /\ heap[objs[o].m_Data].status = "live"
                   /\ Len(heap[objs[o].m_Data].bytes) >= objs[o].m_Size
            /\ objs[o].m_Data = Null => objs[o].m_Size = 0

\* -- C5 --
C5StateFor(S) ==
    \A y \in Objs :
        CopyOfFresh(y) /\ ~objs[y].stolen =>
            LET x == objs[y].from
            IN /\ objs[y].m_Data # Null
               /\ objs[y].m_Data # objs[x].m_Data
               /\ (lastPrint.by = y /\ objs[x].arg \in S) =>
                      lastPrint.bytes = objs[x].arg \o <<NL>>

C5Step == Built("copy") => SourceUntouched

\* C5 as stated: for every byte sequence b, x = String(b) and y = String(x)
\* hold different blocks, the copy leaves x as it was, and y.Print() writes
\* b and the terminator, also after x is destroyed.
C5_Duplication_AnyBytes == [](C5StateFor(AnyBytes)) /\ [][C5Step]_vars

\* C5 amended: the blocks differ and x is left as it was for every b;
\* y.Print() writes b and the terminator for every b without a zero byte.
C5_Duplication == [](C5StateFor(NoNul)) /\ [][C5Step]_vars

C5_Witness ==
    \E y \in Objs :
        /\ CopyOfFresh(y)
        /\ objs[objs[y].from].arg = Bar
        /\ ~objs[objs[y].from].live
        /\ lastPrint.by = y

\* -- C6 --
C6For(S) ==
    \A x \in Objs :
        (objs[x].how = "bytes" /\ objs[x].arg \in S /\ ~objs[x].stolen) =>
            /\ objs[x].m_Data # Null
            /\ Len(heap[objs[x].m_Data].bytes) = Len(objs[x].arg)
            /\ lastPrint.by = x => lastPrint.bytes = objs[x].arg \o <<NL>>

\* C6 as stated: for every byte sequence b, String(b) allocates exactly
\* Len(b) bytes and its Print() writes b followed by one terminator.
C6_RoundTrip_AnyBytes == C6For(AnyBytes)

\* C6 amended: the same for every byte sequence b without a zero byte.
C6_RoundTrip == C6For(NoNul)

C6_Witness ==
    /\ \E x \in Objs :
           /\ objs[x].how = "bytes"
           /\ objs[x].arg = Foo
           /\ lastPrint.by = x
    /\ \E x \in Objs :
           /\ objs[x].how = "bytes"
           /\ objs[x].arg = <<>>
           /\ objs[x].m_Data # Null

\* -- C7 --
\* The run so far is: existing = String(b); holder = Entity(existing).
ScenarioB ==
    /\ Len(objs) = 2
    /\ objs[1].how = "bytes"
    /\ ~objs[1].temp
    /\ objs[2].ctor = "Entity(const String&)"
    /\ err = "none"

C7StateFor(S) ==
    ScenarioB =>
        /\ Len(heap) = 2
        /\ trace.Created = 1
        /\ trace.Copied = 1
        /\ trace.Moved = 0
        /\ (lastPrint.by \in {1, 2} /\ objs[1].arg \in S) =>
               lastPrint.bytes = objs[1].arg \o <<NL>>

C7Step ==
    ( /\ Len(objs') = Len(objs) + 1
      /\ objs'[Len(objs')].ctor = "Entity(const String&)" ) => SourceUntouched

\* C7 as stated: after existing = String(b); holder = Entity(existing), for
\* every byte sequence b, existing is as it was, both print b and the
\* terminator, and the run made two allocations, one copy and no move.
C7_FromExisting_AnyBytes == [](C7StateFor(AnyBytes)) /\ [][C7Step]_vars

\* C7 amended: existing is left as it was and the counts hold for every b;
\* both print b and the terminator for every b without a zero byte.
C7_FromExisting == [](C7StateFor(NoNul)) /\ [][C7Step]_vars

C7_Witness ==
    /\ ScenarioB
    /\ objs[1].arg = Bar
    /\ lastPrint.by = 2

\* -- C8 --
\* The run so far is main's: Entity entity(String("Foo")) and what follows.
MainScenario ==
    /\ Len(objs) = 2
    /\ objs[1].how = "bytes"
    /\ objs[1].temp
    /\ objs[1].arg = Foo
    /\ objs[2].ctor = "Entity(String&&)"
    /\ err = "none"

\* C8: in main's run there is one allocation, no copy and one move; the
\* temporary is empty and its destruction frees nothing; entity.PrintName()
\* writes Foo and one terminator.
C8_FromTransient ==
    MainScenario =>
        /\ Len(heap) = 1
        /\ trace.Created = 1
        /\ trace.Copied = 0
        /\ trace.Moved = 1
        /\ objs[1].m_Data = Null
        /\ objs[1].m_Size = 0
        /\ (~objs[1].live /\ objs[2].live) =>
               /\ heap[1].status = "live"
               /\ heap[1].frees = 0
        /\ lastPrint.by = 2 => lastPrint.bytes = Foo \o <<NL>>

C8_Witness ==
    /\ MainScenario
    /\ ~objs[1].live
    /\ lastPrint.by = 2

\* -- C9 --
C9State ==
    err = "bad_alloc" =>
        /\ halted
        /\ fault = "none"
        /\ \A o \in Objs : ~(objs[o].m_Data = Null /\ objs[o].m_Size > 0)

C9Step ==
    (err = "none" /\ err' = "bad_alloc") =>
        /\ objs' = objs
        /\ heap' = heap

\* C9: a failed new char[] ends the run with bad_alloc at that point; no
\* instance with a null m_Data and a non-zero m_Size exists, nothing was
\* copied through a null pointer, and the instances (the argument of the
\* copy among them) and the heap are as before.
C9_AllocationFailure == []C9State /\ [][C9Step]_vars

C9_Witness ==
    /\ err = "bad_alloc"
    /\ trace.Copied = 1
    /\ Len(objs) = 1

\* -- C10 --
\* C10: Print() on an instance whose m_Data is null writes one terminator
\* and nothing else, and reads nothing through the pointer.
C10_PrintOfEmpty ==
    \A o \in Objs :
        (lastPrint.by = o /\ objs[o].m_Data = Null) =>
            /\ lastPrint.bytes = <<NL>>
            /\ fault = "none"

C10_Witness ==
    \E o \in Objs :
        /\ lastPrint.by = o
        /\ IsEntity(o)
        /\ objs[o].stolen
        /\ objs[o].m_Data = Null

====
